---- MODULE Spec2Model ----
(***************************************************************************)
(* storagecheck: the main loop of src/main.go (cleanupPreviousChecks, then *)
(* doStorageCheck, then one tick), run against a namespace of pods and     *)
(* persistent volume claims.  Every cluster API call is one step, so that  *)
(* a process stop can fall between any two calls.                          *)
(***************************************************************************)
EXTENDS Integers, Sequences, FiniteSets, TLC

\* ---------------------------------------------------------------- bounds
\* calls of doStorageCheck, over all processes
MaxCycles == 1
\* fetches of one cycle that find the pod not terminal
MaxPolls == 1

VARIABLES
    pc,             \* position of the main goroutine
    pods,           \* pods of the namespace: [name, labels, claim, cycle]
    pvcs,           \* claims of the namespace: [name, labels, cycle]
    phase,          \* status.phase of the pod the running cycle created
    checkSuccess, checkFailure, checkDuration, cleanupSuccess, cleanupFailure,
    items,          \* podList.Items / pvcList.Items still to be visited
    createdPVC,     \* createdPVC.Name, NoName before the create
    createdPod,     \* createdPod.Name, NoName before the create
    deferred,       \* stack of deferred delete calls of doStorageCheck
    polls,          \* fetches of the running cycle that were not terminal
    cycle,          \* calls of doStorageCheck started so far, all processes
    trace,          \* API calls issued by the running (or last) function call
    entry,          \* counters and labelled resources at that call's entry
    orphans,        \* what the cycle of the last stopped process left behind
    lastPass,       \* how the last finished cleanupPreviousChecks pass went
    prevPass,       \* the pass before the running one, as seen at its start
    createdSince,   \* a create succeeded since the last pass started
    untargeted,     \* created by this process, no delete issued for it yet
    missed,         \* deferred delete returned an error, no pass has tried since
    returned,       \* calls of doStorageCheck that returned in this process
    build,          \* the source file the running binary was built from
    http,           \* the last request served and what its client received
    lookup,         \* the last call of lookupStorageClass: classes and result
    interval,       \* CHECK_INTERVAL as read, and the period made of it
    ticker          \* the channel of the ticker and what went through it

vars == <<pc, pods, pvcs, phase, checkSuccess, checkFailure, checkDuration,
          cleanupSuccess, cleanupFailure, items, createdPVC, createdPod,
          deferred, polls, cycle, trace, entry, orphans,
          lastPass, prevPass, createdSince, untargeted, missed, returned,
          build, http, lookup, interval, ticker>>

metrics == <<checkSuccess, checkFailure, checkDuration, cleanupSuccess, cleanupFailure>>
locals == <<items, createdPVC, createdPod, deferred, polls>>
cluster == <<pods, pvcs, phase>>
ghosts == <<entry, orphans, lastPass, prevPass, createdSince, untargeted, missed,
           returned>>

NoName == 0

\* ------------------------------------------------------- labels, selector
OwnershipLabel == "storage-check"
ForeignLabel == "other"

\* `LabelSelector: "app=storage-check"` of both list calls.
LabelSelectorTypo == "storage-checks"
LabelSelector == "storage-check"

PVCLabelsMissing == "none"
PVCLabels == OwnershipLabel

PodLabelsMissing == "none"
PodLabels == OwnershipLabel

Matches(r) == r.labels = LabelSelector

\* `os.Getenv("NAMESPACE")`, line 71; the empty namespace of a client call
\* stands for all namespaces.
NamespaceAll == ""
Namespace == "storage-check"
OtherNamespace == "kube-system"

\* `clientset.CoreV1().Pods(namespace)`: the objects a call on `ns` reaches.
Namespaced(S, ns) == IF ns = NamespaceAll THEN S ELSE {r \in S : r.ns = ns}

Names(S) == {r.name : r \in S}

\* The objects that carry the ownership label.
Owned(S) == {r \in S : r.ns = Namespace /\ r.labels = OwnershipLabel}

\* ------------------------------------------------------------ call trace
\* One API call: what was called, on which kind and name, whether it returned
\* no error and, for a fetch, the phase the loop then looked at.
NoRequest == [restartPolicy |-> ""]

Fetch(name, ok, ph) ==
    [op |-> "get", kind |-> "pod", name |-> name, ok |-> ok, ph |-> ph, req |-> NoRequest]

\* A pod create with the pod it asked for.
PodCreate(name, ok, req) ==
    [op |-> "create", kind |-> "pod", name |-> name, ok |-> ok, ph |-> "", req |-> req]

Event(op, kind, name, ok) ==
    [op |-> op, kind |-> kind, name |-> name, ok |-> ok, ph |-> "", req |-> NoRequest]

Snapshot == [success |-> checkSuccess, failure |-> checkFailure,
             duration |-> checkDuration,
             cleanupSuccess |-> cleanupSuccess, cleanupFailure |-> cleanupFailure,
             pods |-> Names(Owned(pods)), pvcs |-> Names(Owned(pvcs))]

NoEntry == [success |-> 0, failure |-> 0, duration |-> 0,
            cleanupSuccess |-> 0, cleanupFailure |-> 0, pods |-> {}, pvcs |-> {}]

\* What is remembered of a cleanupPreviousChecks pass: whether it ran to its
\* end, whether every call of it returned no error, how many deletes it issued,
\* and whether no create succeeded between its start and the next pass.
NoPass == [ran |-> FALSE, clean |-> FALSE, swept |-> 0, quiet |-> FALSE]

\* ------------------------------------------------------------------ Init
\* The namespace the first process finds: either only a pod and a claim of
\* somebody else, or also a labelled pod and a labelled claim that an earlier
\* process left behind.
Seeded == BOOLEAN

\* Names are numbers: 1 and 2 the pods, 3 and 4 the claims found at the start;
\* -1 and -2 a labelled pod and a labelled claim of another namespace.
SeedPods(seeded) ==
    {[name |-> 2, labels |-> ForeignLabel, claim |-> NoName, cycle |-> 0,
      ns |-> Namespace],
     [name |-> -1, labels |-> OwnershipLabel, claim |-> NoName, cycle |-> 0,
      ns |-> OtherNamespace]}
    \cup (IF seeded
          THEN {[name |-> 1, labels |-> OwnershipLabel, claim |-> NoName, cycle |-> 0,
                 ns |-> Namespace]}
          ELSE {})

SeedPVCs(seeded) ==
    {[name |-> 4, labels |-> ForeignLabel, cycle |-> 0, ns |-> Namespace],
     [name |-> -2, labels |-> OwnershipLabel, cycle |-> 0, ns |-> OtherNamespace]}
    \cup (IF seeded
          THEN {[name |-> 3, labels |-> OwnershipLabel, cycle |-> 0, ns |-> Namespace]}
          ELSE {})

\* GenerateName: the server gives every created object a name of its own.
PVCName(c) == 3 + 2 * c
PodName(c) == 4 + 2 * c

\* ------------------------------------------------------------ HTTP server
\* What a client has received: the status code, the chunks of the body, and
\* how often a handler was entered on the way.
NewRecorder == [code |-> 200, wroteHeader |-> FALSE, body |-> <<>>, calls |-> 0]

NoExchange == [handler |-> "", method |-> "", path |-> "", rec |-> NewRecorder]

\* `w.WriteHeader(code)`: the first call decides the status.
WriteHeader(w, code) ==
    IF w.wroteHeader THEN w ELSE [w EXCEPT !.code = code, !.wroteHeader = TRUE]

\* `w.Write(b)`: sends the header, 200 unless written before, then the bytes.
Write(w, b) == [WriteHeader(w, 200) EXCEPT !.body = Append(@, b)]

Entered(w) == [w EXCEPT !.calls = @ + 1]

\* The handler of the tests: `w.WriteHeader(status); w.Write(body)`.
DummyHandlers ==
    {[name |-> "ok", status |-> 200, body |-> "OK"],
     [name |-> "created", status |-> 201, body |-> "Created"],
     [name |-> "error", status |-> 500, body |-> "Internal Server Error"]}

\* What promhttp.Handler() writes: the current values of the registered
\* metrics.
ExpositionZero(m) == <<0, 0, 0, 0, 0>>
Exposition(m) == m

\* The handlers main registers (lines 107-111) and those of the tests.
Handlers == {"metrics", "healthz"} \cup {h.name : h \in DummyHandlers}
ServeHTTPWhenChecked(h, w, m) ==
    CASE h = "metrics" -> Write(Entered(w), Exposition(m))
      [] h = "healthz" -> Write(WriteHeader(Entered(w), IF m[1] + m[2] = 0 THEN 503 ELSE 200),
                                "I'm OK. And you?")
      [] OTHER -> LET d == CHOOSE x \in DummyHandlers : x.name = h
                  IN Write(WriteHeader(Entered(w), d.status), d.body)
ServeHTTP(h, w, m) ==
    CASE h = "metrics" -> Write(Entered(w), Exposition(m))
      [] h = "healthz" -> Write(WriteHeader(Entered(w), 200), "I'm OK. And you?")
      [] OTHER -> LET d == CHOOSE x \in DummyHandlers : x.name = h
                  IN Write(WriteHeader(Entered(w), d.status), d.body)

\* Lines 136-144: log, call next.ServeHTTP(w, r), log.
LoggingMiddlewareTwice(h, w, m) == ServeHTTP(h, ServeHTTP(h, w, m), m)
LoggingMiddleware(h, w, m) == ServeHTTP(h, w, m)

\* ---------------------------------------------------- lookupStorageClass
\* The most storage classes a cluster of the model holds.
MaxClasses == 2

ClassNames == {"delete-storage", "fast-storage", "retain-storage"}

\* ReclaimPolicy of a class; the empty string is a policy left unset (nil).
Policies == {"Delete", "Retain", "Recycle", ""}

\* What the list of storage classes can return: classes of different names.
ClassLists ==
    {cs \in UNION {[1..n -> [name : ClassNames, policy : Policies]] : n \in 0..MaxClasses} :
        \A i, j \in 1..Len(cs) : i # j => cs[i].name # cs[j].name}

NoLookup == [classes |-> <<>>, name |-> "", err |-> FALSE, called |-> FALSE]

\* The first of the listed classes at the positions `hits`, the empty name when
\* there is none; no error either way.
FirstClass(cs, hits) ==
    [classes |-> cs,
     name |-> IF hits = {} THEN ""
              ELSE cs[CHOOSE i \in hits : \A k \in hits : i <= k].name,
     err |-> FALSE,
     called |-> TRUE]

NotRetain(policy) == policy # "Retain"
IsDelete(policy) == policy = "Delete"

lookupStorageClassNotRetain(cs) ==
    FirstClass(cs, {i \in 1..Len(cs) : NotRetain(cs[i].policy)})
lookupStorageClass(cs) ==
    FirstClass(cs, {i \in 1..Len(cs) : IsDelete(cs[i].policy)})

\* ------------------------------------------------------- CHECK_INTERVAL
\* The digits a value of the variable is enumerated up to.
MaxDigits == 2

Digits == {"0", "1", "2", "3", "4", "5", "6", "7", "8", "9"}

DigitValue ==
    [c \in Digits |->
        CASE c = "0" -> 0 [] c = "1" -> 1 [] c = "2" -> 2 [] c = "3" -> 3
          [] c = "4" -> 4 [] c = "5" -> 5 [] c = "6" -> 6 [] c = "7" -> 7
          [] c = "8" -> 8 [] c = "9" -> 9]

\* Integers wider than the checker's are sequences of bytes, lowest first:
\* twelve of them hold any product of an int64 and time.Second exactly, the
\* lowest eight are what an int64 keeps of it.
Byte == 256
Wide == 12
Int64Bytes == 8

\* Carries from position i on; what leaves the last byte is lost.
RECURSIVE Carried(_, _, _)
Carried(v, i, c) ==
    IF i > Len(v) THEN <<>>
    ELSE <<(v[i] + c) % Byte>> \o Carried(v, i + 1, (v[i] + c) \div Byte)

\* A number the checker can hold, as bytes.
Bytes(n) == Carried([i \in 1..Wide |-> IF i = 1 THEN n ELSE 0], 1, 0)

\* a * 10 + d.
Times10Plus(a, d) ==
    Carried([i \in 1..Wide |-> a[i] * 10 + (IF i = 1 THEN d ELSE 0)], 1, 0)

RECURSIVE Column(_, _, _, _)
Column(a, b, k, i) ==
    IF i > k THEN 0 ELSE a[i] * b[k - i + 1] + Column(a, b, k, i + 1)

\* a * b, exact as long as it fits Wide bytes.
Times(a, b) == Carried([k \in 1..Wide |-> Column(a, b, k, 1)], 1, 0)

IsZero(a) == \A i \in 1..Len(a) : a[i] = 0

\* The number is at least 2^63: it does not fit a non-negative int64.
Above63(a) == (\E i \in (Int64Bytes + 1)..Len(a) : a[i] # 0) \/ a[Int64Bytes] >= Byte \div 2

\* The number is more than 2^63: its negation does not fit an int64.
Beyond63(a) ==
    Above63(a) /\ ~(/\ a[Int64Bytes] = Byte \div 2
                    /\ \A i \in 1..Len(a) : i # Int64Bytes => a[i] = 0)

\* What an int64 keeps of a number: its lowest 64 bits, the topmost the sign.
Int64(a) == [bits |-> SubSeq(a, 1, Int64Bytes)]
Negative(x) == x.bits[Int64Bytes] >= Byte \div 2
Positive(x) == ~Negative(x) /\ ~IsZero(x.bits)

\* The decimal number a sequence of digits writes.
RECURSIVE Decimal(_, _)
Decimal(ds, acc) ==
    IF ds = <<>> THEN acc
    ELSE Decimal(Tail(ds), Times10Plus(acc, DigitValue[Head(ds)]))

\* `strconv.Atoi(intervalStr)`, line 99: an optional sign, then digits only;
\* a number outside the int64 range is an error.
Atoi(str) ==
    LET signed == str # <<>> /\ Head(str) \in {"+", "-"}
        neg == str # <<>> /\ Head(str) = "-"
        ds == IF signed THEN Tail(str) ELSE str
        syntax == ds = <<>> \/ \E i \in 1..Len(ds) : ds[i] \notin Digits
        mag == IF syntax THEN Bytes(0) ELSE Decimal(ds, Bytes(0))
        range == IF neg THEN Beyond63(mag) ELSE Above63(mag)
    IN [err |-> syntax \/ range, neg |-> neg /\ ~IsZero(mag), mag |-> mag]

\* `interval = 3600 // default: 1 hour`, line 101.
DefaultInterval == 3600

\* Lines 99-102: the seconds main goes on with.
Interval(str) ==
    LET parsed == Atoi(str)
    IN IF parsed.err \/ parsed.neg \/ IsZero(parsed.mag)
       THEN Bytes(DefaultInterval) ELSE parsed.mag

\* `time.Second`, a Duration of 10^9 nanoseconds.
Second == 1000000000

\* `time.Duration(interval) * time.Second`, line 127: an int64 product.
Period(seconds) == Int64(Times(seconds, Bytes(Second)))

\* `time.NewTicker(d)`, line 127: panics unless d is positive.
NewTicker(str) ==
    LET seconds == Interval(str)
        d == Period(seconds)
    IN [env |-> str, seconds |-> seconds, period |-> d, panicked |-> ~Positive(d),
        made |-> TRUE]

\* Before line 99: nothing read, no ticker made.
NoInterval ==
    [env |-> <<>>, seconds |-> Bytes(0), period |-> Int64(Bytes(0)),
     panicked |-> FALSE, made |-> FALSE]

\* The values of CHECK_INTERVAL looked at: every number of up to MaxDigits
\* digits, numbers around 2^63 / 10^9, 2^64 / 10^9 and 2^63, each bare and
\* with either sign, and values that are no numbers.
LongNumbers ==
    {<<"3", "6", "0", "0">>,
     <<"8", "6", "4", "0", "0">>,
     <<"9", "2", "2", "3", "3", "7", "2", "0", "3", "6">>,
     <<"9", "2", "2", "3", "3", "7", "2", "0", "3", "7">>,
     <<"1", "8", "4", "4", "6", "7", "4", "4", "0", "7", "3">>,
     <<"1", "8", "4", "4", "6", "7", "4", "4", "0", "7", "4">>,
     <<"2", "7", "6", "7", "0", "1", "1", "6", "1", "1", "1">>,
     <<"9", "2", "2", "3", "3", "7", "2", "0", "3", "6", "8", "5", "4", "7", "7", "5", "8", "0", "7">>,
     <<"9", "2", "2", "3", "3", "7", "2", "0", "3", "6", "8", "5", "4", "7", "7", "5", "8", "0", "8">>}
NoNumbers ==
    {<<>>,
     <<"1", "h">>,
     <<"3", "6", "0", "0", "s">>,
     <<"a">>,
     <<"1", ".", "5">>,
     <<" ", "5">>,
     <<"-">>,
     <<"+">>,
     <<"0", "x", "1", "0">>,
     <<"1", "_", "0", "0", "0">>}
Intervals ==
    {sign \o ds : sign \in {<<>>, <<"-">>, <<"+">>},
                  ds \in LongNumbers \cup UNION {[1..n -> Digits] : n \in 1..MaxDigits}}
    \cup NoNumbers

\* The channel of the ticker holds one tick at most (`time.NewTicker`, line
\* 127); nothing is in it when the loop starts.
NoTicks == [buffered |-> 0, lapsed |-> 0, received |-> 0]

\* The two files of the repository that define doStorageCheck with a
\* namespace: they differ in the two flags of lines 192 and 194.
MainGo == "main.go"
Part002 == "part_002"
Builds == {MainGo, Part002}

Started ==
    /\ pc = "listPods"
    /\ \E seeded \in Seeded :
          /\ pods = SeedPods(seeded)
          /\ pvcs = SeedPVCs(seeded)
    /\ phase = ""
    /\ checkSuccess = 0 /\ checkFailure = 0 /\ checkDuration = 0
    /\ cleanupSuccess = 0 /\ cleanupFailure = 0
    /\ items = {}
    /\ createdPVC = NoName /\ createdPod = NoName
    /\ deferred = <<>>
    /\ polls = 0
    /\ cycle = 0
    /\ trace = <<>>
    /\ entry = NoEntry
    /\ orphans = {}
    /\ lastPass = NoPass
    /\ prevPass = NoPass
    /\ createdSince = FALSE
    /\ untargeted = {}
    /\ missed = {}
    /\ returned = 0

\* The program the Dockerfile builds is main.go.
Init ==
    /\ Started /\ build = MainGo /\ http = NoExchange /\ lookup = NoLookup
    /\ interval = NoInterval /\ ticker = NoTicks

\* ------------------------------------------------------- cluster API calls
\* Delete of `name`: a call that returns no error removes the object, a call
\* that returns an error leaves the namespace as it was; a name that does not
\* exist can only return an error (NotFound).
DeleteOutcomes(S, name) ==
    IF name \in Names(Namespaced(S, Namespace)) THEN BOOLEAN ELSE {FALSE}

Removed(S, name, ok) ==
    IF ok THEN {r \in S : r.name # name \/ r \notin Namespaced(S, Namespace)} ELSE S

\* List with the label selector: the names of the matching objects.
Listed(S) == Names({r \in Namespaced(S, Namespace) : Matches(r)})

\* ------------------------------------------------- cleanupPreviousChecks
\* `for _, x := range list.Items`: every listed item is visited.
ToSweepButOne(listed) ==
    IF Cardinality(listed) > 1
    THEN listed \ {CHOOSE n \in listed : \A k \in listed : k <= n}
    ELSE listed
ToSweep(listed) == listed

\* The loop visits the items in list order, which is name order.
Front(rest) == CHOOSE n \in rest : \A k \in rest : n <= k

\* The items left to visit after one delete returned `ok`.
RestStopOnError(rest, ok) == IF ok THEN rest ELSE {}
Rest(rest, ok) == rest

CleanupSuccessNever(n, ok) == n
CleanupSuccessAfter(n, ok) == IF ok THEN n + 1 ELSE n
CleanupFailureAlways(n, ok) == n + 1
CleanupFailureAfter(n, ok) == IF ok THEN n ELSE n + 1

Clean(t) == \A i \in 1..Len(t) : t[i].ok

Deletes(t) == {i \in 1..Len(t) : t[i].op = "delete"}

PassResult(t) == [ran |-> TRUE, clean |-> Clean(t), swept |-> Cardinality(Deletes(t)),
                  quiet |-> FALSE]

\* After the pod list: the pod loop when there is something to visit, the
\* claim list otherwise, a failed list included (line 156).
AfterListPodsReturnOnError(ok, rest) ==
    IF ~ok THEN "createPVC" ELSE IF rest = {} THEN "listPVCs" ELSE "deletePods"
AfterListPods(ok, rest) == IF rest = {} THEN "listPVCs" ELSE "deletePods"

\* Lines 152-156: list the pods; a failed list skips the pod sweep.
ListPods ==
    /\ pc = "listPods"
    /\ \E ok \in BOOLEAN :
          /\ items' = IF ok THEN ToSweep(Listed(pods)) ELSE {}
          /\ trace' = <<Event("list", "pod", NoName, ok)>>
          /\ pc' = AfterListPods(ok, items')
    /\ entry' = Snapshot
    /\ prevPass' = [lastPass EXCEPT !.quiet = ~createdSince]
    /\ createdSince' = FALSE
    /\ UNCHANGED <<cluster, metrics, createdPVC, createdPod, deferred, polls,
                   cycle, orphans, lastPass, untargeted, missed, returned>>
    /\ UNCHANGED <<build, http, lookup, interval, ticker>>

\* Lines 157-166: one iteration of the pod loop.
DeletePods ==
    /\ pc = "deletePods"
    /\ LET name == Front(items) IN \E ok \in DeleteOutcomes(pods, name) :
          /\ pods' = Removed(pods, name, ok)
          /\ cleanupSuccess' = CleanupSuccessAfter(cleanupSuccess, ok)
          /\ cleanupFailure' = CleanupFailureAfter(cleanupFailure, ok)
          /\ items' = Rest(items \ {name}, ok)
          /\ trace' = Append(trace, Event("delete", "pod", name, ok))
          /\ untargeted' = untargeted \ {[kind |-> "pod", name |-> name]}
          /\ missed' = missed \ {[kind |-> "pod", name |-> name]}
          /\ pc' = IF items' = {} THEN "listPVCs" ELSE "deletePods"
    /\ UNCHANGED <<pvcs, phase, checkSuccess, checkFailure, checkDuration,
                   createdPVC, createdPod, deferred, polls, cycle,
                   entry, orphans, lastPass, prevPass, createdSince, returned>>
    /\ UNCHANGED <<build, http, lookup, interval, ticker>>

\* Lines 170-174: list the claims; a failed list skips the claim sweep.
ListPVCs ==
    /\ pc = "listPVCs"
    /\ \E ok \in BOOLEAN :
          /\ items' = IF ok THEN ToSweep(Listed(pvcs)) ELSE {}
          /\ trace' = Append(trace, Event("list", "pvc", NoName, ok))
          /\ pc' = IF items' = {} THEN "createPVC" ELSE "deletePVCs"
          /\ lastPass' = IF items' = {} THEN PassResult(trace') ELSE lastPass
    /\ UNCHANGED <<cluster, metrics, createdPVC, createdPod, deferred, polls,
                   cycle, entry, orphans, prevPass, createdSince, untargeted, missed,
                   returned>>
    /\ UNCHANGED <<build, http, lookup, interval, ticker>>

\* Lines 175-184: one iteration of the claim loop.
DeletePVCs ==
    /\ pc = "deletePVCs"
    /\ LET name == Front(items) IN \E ok \in DeleteOutcomes(pvcs, name) :
          /\ pvcs' = Removed(pvcs, name, ok)
          /\ cleanupSuccess' = CleanupSuccessAfter(cleanupSuccess, ok)
          /\ cleanupFailure' = CleanupFailureAfter(cleanupFailure, ok)
          /\ items' = Rest(items \ {name}, ok)
          /\ trace' = Append(trace, Event("delete", "pvc", name, ok))
          /\ untargeted' = untargeted \ {[kind |-> "pvc", name |-> name]}
          /\ missed' = missed \ {[kind |-> "pvc", name |-> name]}
          /\ pc' = IF items' = {} THEN "createPVC" ELSE "deletePVCs"
          /\ lastPass' = IF items' = {} THEN PassResult(trace') ELSE lastPass
    /\ UNCHANGED <<pods, phase, checkSuccess, checkFailure, checkDuration,
                   createdPVC, createdPod, deferred, polls, cycle,
                   entry, orphans, prevPass, createdSince, returned>>
    /\ UNCHANGED <<build, http, lookup, interval, ticker>>

\* --------------------------------------------------------- doStorageCheck
\* `defer ...Delete(ctx, createdPVC.Name, ...)`, line 223.
DeferNoPVCDelete(stack, name) == stack
DeferPVCDelete(stack, name) == Append(stack, [kind |-> "pvc", name |-> name])

\* `defer ...Delete(ctx, createdPod.Name, ...)`, line 314.
DeferOldPodDelete(stack, name) == Append(stack, [kind |-> "pod", name |-> 2])
DeferPodDelete(stack, name) == Append(stack, [kind |-> "pod", name |-> name])

\* Deferred calls run last in, first out; each runs whatever the one before
\* it returned.
FirstDeferred(stack) == stack[1]
TopDeferred(stack) == stack[Len(stack)]

PoppedStopOnError(stack, ok) == IF ok THEN SubSeq(stack, 1, Len(stack) - 1) ELSE <<>>
Popped(stack, ok) == SubSeq(stack, 1, Len(stack) - 1)

\* `if err != nil { checkFailure.Inc(); return }` after either create.
FailureAfterCreateForgotten(n, ok) == n
FailureAfterCreateTwice(n, ok) == IF ok THEN n ELSE n + 2
FailureAfterCreate(n, ok) == IF ok THEN n ELSE n + 1

AfterCreatePVCNoReturn(ok) == "createPod"
AfterCreatePVCRetry(ok) == IF ok THEN "createPod" ELSE "createPVC"
AfterCreatePVC(ok) == IF ok THEN "createPod" ELSE "tick"

AfterCreatePodNoReturn(ok) == "poll"
AfterCreatePodRetry(ok) == IF ok THEN "poll" ELSE "createPod"
AfterCreatePod(ok) == IF ok THEN "poll" ELSE "return"
FetchedErrorFails(name, ok) == IF ok THEN phase ELSE "Failed"
\* `p, _ := ...Get(...)`: the phase the loop looks at; a fetch that returns an
\* error leaves an empty pod, whose phase is the empty string.
Fetched(name, ok) == IF ok THEN phase ELSE ""

FetchOutcomes(name) ==
    IF name \in Names(Namespaced(pods, Namespace)) THEN BOOLEAN ELSE {FALSE}
TerminalOrUnknown(ph) == ph \in {"Succeeded", "Failed", "Unknown"}
Terminal(ph) == ph \in {"Succeeded", "Failed"}

SuccessAfterGet(n, ph) == IF ph = "Succeeded" THEN n + 1 ELSE n

FailureAfterGetNever(n, ph) == n
FailureAfterGet(n, ph) == IF ph = "Failed" THEN n + 1 ELSE n
DurationAfterGetAlways(n, ph) == IF Terminal(ph) THEN n + 1 ELSE n
DurationAfterGet(n, ph) == IF ph = "Succeeded" THEN n + 1 ELSE n

\* Lines 199-223: create the claim.
CreatePVC ==
    /\ pc = "createPVC"
    /\ cycle < MaxCycles
    /\ cycle' = cycle + 1
    /\ entry' = Snapshot
    /\ orphans' = {}
    /\ polls' = 0
    /\ createdPod' = NoName
    /\ \E ok \in BOOLEAN :
          /\ trace' = <<Event("create", "pvc", IF ok THEN PVCName(cycle') ELSE NoName, ok)>>
          /\ checkFailure' = FailureAfterCreate(checkFailure, ok)
          /\ pc' = AfterCreatePVC(ok)
          /\ IF ok
             THEN /\ pvcs' = pvcs \cup {[name |-> PVCName(cycle'), labels |-> PVCLabels,
                                         cycle |-> cycle', ns |-> Namespace]}
                  /\ createdPVC' = PVCName(cycle')
                  /\ deferred' = DeferPVCDelete(<<>>, PVCName(cycle'))
                  /\ createdSince' = TRUE
                  /\ untargeted' = untargeted \cup {[kind |-> "pvc", name |-> PVCName(cycle')]}
             ELSE /\ UNCHANGED <<pvcs, createdSince, untargeted>>
                  /\ createdPVC' = NoName
                  /\ deferred' = <<>>
    /\ UNCHANGED <<pods, phase, checkSuccess, checkDuration, cleanupSuccess,
                   cleanupFailure, items, lastPass, prevPass, missed>>
    /\ returned' = IF pc' = "tick" THEN returned + 1 ELSE returned
    /\ UNCHANGED <<build, http, lookup, interval, ticker>>

\* `var user = int64(1000)`.
User == 1000

\* `var priviledged = bool(false)` in main.go, `var privledged = bool(true)`
\* in part_002.
Priviledged(b) == b = Part002

\* `var readonly = bool(true)`.
Readonly == TRUE

\* `var noneroot = bool(true)` in main.go, `var nonroot = bool(false)` in
\* part_002.
Noneroot(b) == b = MainGo

\* The pod of lines 225-306, as far as restart policy, container security
\* context and volume go.
PodRequest(b, claimName) ==
    [restartPolicy |-> "Never",
     allowPrivilegeEscalation |-> Priviledged(b),
     drop |-> {"ALL", "CAP_NET_RAW"},
     privileged |-> Priviledged(b),
     readOnlyRootFilesystem |-> Readonly,
     runAsUser |-> User,
     runAsNonRoot |-> Noneroot(b),
     claimName |-> claimName]

\* `ClaimName: createdPVC.Name`, line 300: the volume of the pod names the
\* claim by the name the create call returned, not by the (empty) name of the
\* request, which only carries GenerateName.
ClaimNameOfRequest(created) == NoName
ClaimName(created) == created

\* Lines 225-314: create the pod that mounts the claim.
CreatePod ==
    /\ pc = "createPod"
    /\ \E ok \in BOOLEAN :
          /\ trace' = Append(trace, PodCreate(IF ok THEN PodName(cycle) ELSE NoName, ok,
                                               PodRequest(build, ClaimName(createdPVC))))
          /\ checkFailure' = FailureAfterCreate(checkFailure, ok)
          /\ pc' = AfterCreatePod(ok)
          /\ IF ok
             THEN /\ pods' = pods \cup {[name |-> PodName(cycle), labels |-> PodLabels,
                                         claim |-> ClaimName(createdPVC), cycle |-> cycle,
                                         ns |-> Namespace]}
                  /\ phase' = "Pending"
                  /\ createdPod' = PodName(cycle)
                  /\ deferred' = DeferPodDelete(deferred, PodName(cycle))
                  /\ createdSince' = TRUE
                  /\ untargeted' = untargeted \cup {[kind |-> "pod", name |-> PodName(cycle)]}
             ELSE UNCHANGED <<pods, phase, createdPod, deferred, createdSince, untargeted>>
    /\ UNCHANGED <<pvcs, checkSuccess, checkDuration, cleanupSuccess,
                   cleanupFailure, items, createdPVC, polls, cycle,
                   entry, orphans, lastPass, prevPass, missed, returned>>
    /\ UNCHANGED <<build, http, lookup, interval, ticker>>

\* Lines 317-330: one round of the wait loop.
Poll ==
    /\ pc = "poll"
    /\ \E ok \in FetchOutcomes(createdPod) :
          LET ph == Fetched(createdPod, ok) IN
          /\ Terminal(ph) \/ polls < MaxPolls
          /\ trace' = Append(trace, Fetch(createdPod, ok, ph))
          /\ checkSuccess' = SuccessAfterGet(checkSuccess, ph)
          /\ checkDuration' = DurationAfterGet(checkDuration, ph)
          /\ checkFailure' = FailureAfterGet(checkFailure, ph)
          /\ pc' = IF Terminal(ph) THEN "return" ELSE "poll"
          /\ polls' = IF Terminal(ph) THEN polls ELSE polls + 1
    /\ UNCHANGED <<cluster, cleanupSuccess, cleanupFailure, items, createdPVC,
                   createdPod, deferred, cycle, ghosts>>
    /\ UNCHANGED <<build, http, lookup, interval, ticker>>

\* The return of doStorageCheck: one deferred delete per step; the locals go
\* with the last one.
RunDeferred ==
    /\ pc = "return"
    /\ deferred # <<>>
    /\ LET d == TopDeferred(deferred) IN
       \E ok \in DeleteOutcomes(IF d.kind = "pod" THEN pods ELSE pvcs, d.name) :
          /\ pods' = IF d.kind = "pod" THEN Removed(pods, d.name, ok) ELSE pods
          /\ pvcs' = IF d.kind = "pvc" THEN Removed(pvcs, d.name, ok) ELSE pvcs
          /\ deferred' = Popped(deferred, ok)
          /\ trace' = Append(trace, Event("delete", d.kind, d.name, ok))
          /\ untargeted' = untargeted \ {[kind |-> d.kind, name |-> d.name]}
          /\ missed' = IF ok THEN missed ELSE missed \cup {[kind |-> d.kind, name |-> d.name]}
          /\ IF deferred' = <<>>
             THEN /\ pc' = "tick"
                  /\ createdPVC' = NoName /\ createdPod' = NoName
                  /\ polls' = 0 /\ phase' = ""
                  /\ returned' = returned + 1
             ELSE /\ pc' = "return"
                  /\ UNCHANGED <<createdPVC, createdPod, polls, phase, returned>>
    /\ UNCHANGED <<metrics, items, cycle, entry, orphans, lastPass, prevPass,
                   createdSince>>
    /\ UNCHANGED <<build, http, lookup, interval, ticker>>

\* --------------------------------------------------------------- main loop
\* `<-ticker.C`, line 132: the loop goes on when the ticker of line 127
\* delivers a tick.
WaitTick ==
    /\ pc = "tick"
    /\ pc' = "listPods"
    /\ UNCHANGED <<cluster, metrics, locals, cycle, trace, ghosts>>
    /\ UNCHANGED <<build, http, lookup, interval, ticker>>

\* ------------------------------------------------------------- environment
\* The cluster runs the pod of the running cycle.
PhaseSteps(ph) ==
    CASE ph = "Pending" -> {"Running", "Failed"}
      [] ph = "Running" -> {"Succeeded", "Failed", "Unknown"}
      [] ph = "Unknown" -> {"Running", "Failed"}
      [] OTHER -> {}

Kubelet ==
    /\ createdPod \in Names(pods)
    /\ \E next \in PhaseSteps(phase) : phase' = next
    /\ UNCHANGED <<pc, pods, pvcs, metrics, locals, cycle,
                   trace, ghosts>>
    /\ UNCHANGED <<build, http, lookup, interval, ticker>>

InPass == pc \in {"listPods", "deletePods", "listPVCs", "deletePVCs"}

\* The process stops, and its counters, locals and ticker with it; what it
\* created and has not deleted stays behind.
Crash ==
    /\ pc # "crashed"
    /\ pc' = "crashed"
    /\ orphans' = IF pc \in {"createPod", "poll", "return"}
                  THEN {[kind |-> "pod", name |-> r.name] : r \in {x \in pods : x.cycle = cycle}}
                       \cup {[kind |-> "pvc", name |-> r.name] : r \in {x \in pvcs : x.cycle = cycle}}
                  ELSE {}
    /\ lastPass' = IF InPass THEN NoPass ELSE lastPass
    /\ prevPass' = NoPass
    /\ entry' = NoEntry
    /\ items' = {} /\ createdPVC' = NoName /\ createdPod' = NoName
    /\ deferred' = <<>> /\ polls' = 0
    /\ trace' = <<>>
    /\ untargeted' = {}
    /\ returned' = 0
    /\ phase' = ""
    /\ checkSuccess' = 0 /\ checkFailure' = 0 /\ checkDuration' = 0
    /\ cleanupSuccess' = 0 /\ cleanupFailure' = 0
    /\ UNCHANGED <<pods, pvcs, cycle, createdSince, missed>>
    /\ UNCHANGED <<build, http, lookup, interval, ticker>>

\* A new process starts: counters at zero (lines 29-65), then the loop of main.
Restart ==
    /\ pc = "crashed"
    /\ pc' = "listPods"
    /\ UNCHANGED <<cluster, metrics, locals, cycle, trace, ghosts>>
    /\ UNCHANGED <<build, http, lookup, interval, ticker>>

Next ==
    \/ ListPods \/ DeletePods \/ ListPVCs \/ DeletePVCs
    \/ CreatePVC \/ CreatePod \/ Poll \/ RunDeferred
    \/ WaitTick
    \/ Kubelet \/ Crash \/ Restart

Spec == Init /\ [][Next]_vars

\* The same loop run from either file that defines it.
EitherBuildInit ==
    /\ Started /\ build \in Builds /\ http = NoExchange /\ lookup = NoLookup
    /\ interval = NoInterval /\ ticker = NoTicks

EitherBuildSpec == EitherBuildInit /\ [][Next]_vars

\* Somebody else (an operator, a controller, another instance) deletes the pod
\* the poll loop is waiting for; the next fetches return a not-found error.
PodDeleted ==
    /\ pc = "poll"
    /\ createdPod \in Names(pods)
    /\ pods' = {r \in pods : r.name # createdPod}
    /\ UNCHANGED <<pc, pvcs, phase, metrics, locals, cycle, trace, ghosts>>
    /\ UNCHANGED <<build, http, lookup, interval, ticker>>

SharedNext == Next \/ PodDeleted

\* The program in a namespace where others may delete the pod under test.
SharedSpec == Init /\ [][SharedNext]_vars
\* cleanupPreviousChecks of a second instance in the same namespace, lines
\* 146-186 run by another process: it lists by the same selector and deletes
\* what it lists, here the pod or the claim of the cycle this process is in.
PeerSweep ==
    /\ pc \in {"createPod", "poll"}
    /\ \E kind \in {"pod", "pvc"} :
          LET name == IF kind = "pod" THEN createdPod ELSE createdPVC IN
          /\ name \in Listed(IF kind = "pod" THEN pods ELSE pvcs)
          /\ pods' = IF kind = "pod" THEN Removed(pods, name, TRUE) ELSE pods
          /\ pvcs' = IF kind = "pvc" THEN Removed(pvcs, name, TRUE) ELSE pvcs
    /\ UNCHANGED <<pc, phase, metrics, locals, cycle, trace, ghosts>>
    /\ UNCHANGED <<build, http, lookup, interval, ticker>>

\* The steps the main goroutine takes on its own: every call of the loop body
\* but the fetch, and the tick it waits for.
Program ==
    \/ ListPods \/ DeletePods \/ ListPVCs \/ DeletePVCs
    \/ CreatePVC \/ CreatePod \/ RunDeferred \/ WaitTick

\* The pod under test reaches Succeeded or Failed.
PodEnds == Kubelet /\ Terminal(phase')

\* A fetch that returns no error and shows a terminal phase.
TerminalFetch == Poll /\ pc' = "return"

LiveNext == Program \/ Poll \/ Kubelet

\* One process that is never stopped: the goroutine keeps running, the ticker
\* keeps ticking, and the pod under test ends and is fetched once it has.
LiveSpec ==
    /\ Init
    /\ [][LiveNext]_vars
    /\ WF_vars(Program)
    /\ WF_vars(PodEnds)
    /\ WF_vars(TerminalFetch)

PeerNext == LiveNext \/ PeerSweep

\* Two instances with the same label in one namespace, seen from one of them
\* while its process lives.
PeerSpec == Init /\ [][PeerNext]_vars
\* The pod's status is rewritten while the call that fetched its terminal
\* phase is returning: what a later Get of line 318 would read, were there one.
PhaseDrift ==
    /\ pc = "return"
    /\ createdPod \in Names(pods)
    /\ \E next \in {"Succeeded", "Failed", "Running"} \ {phase} : phase' = next
    /\ UNCHANGED <<pc, pods, pvcs, metrics, locals, cycle, trace, ghosts>>
    /\ UNCHANGED <<build, http, lookup, interval, ticker>>

DriftNext == LiveNext \/ PhaseDrift

\* One process in a cluster where the phase of a pod keeps changing after the
\* poll loop saw it end.
DriftSpec == Init /\ [][DriftNext]_vars
\* `http.Handle("/metrics", ...)`, `http.Handle("/healthz", ...)`.
Route(path) == IF path = "/metrics" THEN "metrics" ELSE "healthz"

\* The goroutine of lines 105-113 serves one request while the loop is
\* anywhere.
Serve ==
    /\ pc # "crashed"
    /\ \E path \in {"/metrics", "/healthz"} :
          http' = [handler |-> Route(path), method |-> "GET", path |-> path,
                   rec |-> LoggingMiddleware(Route(path), NewRecorder, metrics)]
    /\ UNCHANGED <<pc, cluster, metrics, locals, cycle, trace, ghosts, build, lookup, interval,
                   ticker>>

ServeNext == LiveNext \/ Serve

\* The loop of one process with its HTTP endpoint in use, started in a
\* namespace without leftovers.
ServeInit == Init /\ Owned(pods) = {} /\ Owned(pvcs) = {}

ServeSpec == ServeInit /\ [][ServeNext]_vars

HealthNext == ServeNext \/ PodDeleted

\* The loop with its HTTP endpoint in use, in a namespace where the pod under
\* test can be deleted by others, which leaves the poll loop without an end.
HealthSpec == ServeInit /\ [][HealthNext]_vars

\* The requests of the tests and of the two endpoints.
Methods == {"GET", "POST", "PUT", "DELETE"}
Paths == {"/test", "/api/create", "/error", "/metrics", "/healthz"}

\* `LoggingMiddleware(handler).ServeHTTP(rec, req)` for any handler, method
\* and path, on a recorder nothing has been written to.
Wrapped ==
    /\ \E h \in Handlers, method \in Methods, path \in Paths :
          http' = [handler |-> h, method |-> method, path |-> path,
                   rec |-> LoggingMiddleware(h, NewRecorder, metrics)]
    /\ UNCHANGED <<pc, cluster, metrics, locals, cycle, trace, ghosts, build, lookup, interval,
                   ticker>>

\* LoggingMiddleware alone, as its tests call it.
MiddlewareSpec == Init /\ [][Wrapped]_vars

\* `lookupStorageClass(client)` on a cluster with any classes.
Lookup ==
    /\ \E cs \in ClassLists : lookup' = lookupStorageClass(cs)
    /\ UNCHANGED <<pc, cluster, metrics, locals, cycle, trace, ghosts, build, http, interval,
                   ticker>>

\* lookupStorageClass alone, as its tests call it.
LookupSpec == Init /\ [][Lookup]_vars

\* main up to line 127 with CHECK_INTERVAL set to any of the values.
Configure ==
    /\ ~interval.made
    /\ \E str \in Intervals : interval' = NewTicker(str)
    /\ UNCHANGED <<pc, cluster, metrics, locals, cycle, trace, ghosts, build, http,
                   lookup, ticker>>

\* The start of main alone, once per value of CHECK_INTERVAL.
IntervalSpec == Init /\ [][Configure]_vars

\* The ticks the ticker sends while the loop does not receive, at most.
MaxLapsed == 2

\* The channel of a ticker has room for one tick: a tick sent while one waits
\* is dropped.
SentUnbounded(n) == n + 1
Sent(n) == IF n = 0 THEN 1 ELSE n

\* An interval has passed: the ticker of line 127 sends a tick, wherever the
\* loop is.
Tick ==
    /\ ticker.lapsed < MaxLapsed
    /\ ticker' = [ticker EXCEPT !.buffered = Sent(@), !.lapsed = @ + 1]
    /\ UNCHANGED <<pc, cluster, metrics, locals, cycle, trace, ghosts, build, http,
                   lookup, interval>>

\* `<-ticker.C`, line 132, with the channel in view: the loop goes on when a
\* tick waits in it, and takes it.
ReceiveTick ==
    /\ pc = "tick"
    /\ ticker.buffered > 0
    /\ pc' = "listPods"
    /\ ticker' = [buffered |-> ticker.buffered - 1, lapsed |-> 0,
                  received |-> ticker.received + 1]
    /\ UNCHANGED <<cluster, metrics, locals, cycle, trace, ghosts, build, http,
                   lookup, interval>>

TickerNext ==
    \/ ListPods \/ DeletePods \/ ListPVCs \/ DeletePVCs
    \/ CreatePVC \/ CreatePod \/ Poll \/ RunDeferred
    \/ Kubelet
    \/ Tick \/ ReceiveTick

\* One process with its ticker: the loop waits until a tick is there.
TickerSpec == Init /\ [][TickerNext]_vars

\* ================================================================ claims
\* doStorageCheck has returned: the loop waits for the next tick, `trace`
\* holds the calls of that cycle and `entry` the counters at its entry.
Returned == pc = "tick"

\* cleanupPreviousChecks has returned and doStorageCheck is about to issue
\* its claim create: `trace` holds the calls of that pass.
PassDone == pc = "createPVC"

\* doStorageCheck has returned and nothing was called since.
NotRunning == pc \in {"tick", "listPods"}

Calls(op, kind) ==
    {i \in 1..Len(trace) : trace[i].op = op /\ trace[i].kind = kind}

CallsOn(op, kind, name) == {i \in Calls(op, kind) : trace[i].name = name}

Issued(op, kind) == Calls(op, kind) # {}

ListOk(kind) == \E i \in Calls("list", kind) : trace[i].ok

ClaimCreateFailed ==
    /\ Len(trace) >= 1
    /\ trace[1].op = "create" /\ trace[1].kind = "pvc" /\ ~trace[1].ok

PodCreateFailed ==
    /\ Len(trace) >= 2
    /\ trace[2].op = "create" /\ trace[2].kind = "pod" /\ ~trace[2].ok

\* C1: a call of doStorageCheck that has returned has increased exactly one of
\* checkSuccess and checkFailure, by exactly 1, and left the other unchanged.
C1_OneOutcome ==
    Returned =>
        \/ checkSuccess = entry.success + 1 /\ checkFailure = entry.failure
        \/ checkSuccess = entry.success /\ checkFailure = entry.failure + 1

C1_Witness ==
    /\ Returned
    /\ checkFailure = entry.failure + 1
    /\ \E i \in Calls("get", "pod") : trace[i].ok

\* The claim or pod the cycle that last ran created and that is still listable
\* under the ownership label.
CycleLeft(kind) ==
    Names({r \in Owned(IF kind = "pod" THEN pods ELSE pvcs) : r.cycle = cycle})

\* C2, as claimed: once doStorageCheck has returned, nothing the cycle created
\* is still listable under the label.
C2_NothingLeft == Returned => CycleLeft("pod") = {} /\ CycleLeft("pvc") = {}

\* C2, amended: once doStorageCheck has returned, whatever the cycle created
\* and is still listable under the label is an object whose end-of-cycle
\* delete call returned an error.
C2_LeftOnlyByFailedDelete ==
    Returned =>
        \A kind \in {"pod", "pvc"} : \A name \in CycleLeft(kind) :
            \E i \in CallsOn("delete", kind, name) : ~trace[i].ok

C2_Witness ==
    /\ Returned
    /\ Cardinality(Calls("delete", "pod")) = 1
    /\ Cardinality(Calls("delete", "pvc")) = 1
    /\ \A i \in Deletes(trace) : trace[i].ok
    /\ CycleLeft("pod") = {} /\ CycleLeft("pvc") = {}

\* C3: when doStorageCheck has returned, it has issued exactly one delete for
\* every object it created and no other delete; so the claim delete is there
\* whenever the claim create succeeded, also after a failed pod delete.
C3_OneDeletePerCreated ==
    Returned =>
        /\ \A kind \in {"pod", "pvc"} : \A i \in Calls("create", kind) :
              trace[i].ok =>
                 Cardinality(CallsOn("delete", kind, trace[i].name)) = 1
        /\ \A kind \in {"pod", "pvc"} : \A i \in Calls("delete", kind) :
              \E j \in Calls("create", kind) :
                 j < i /\ trace[j].ok /\ trace[j].name = trace[i].name

C3_Witness ==
    /\ Returned
    /\ \E i \in Calls("delete", "pod") : ~trace[i].ok
    /\ \E i \in Calls("delete", "pvc") : TRUE

\* C4, as claimed: when a cycle is about to issue its claim create, no labelled
\* object of an earlier cycle exists.
C4_NoLeftover == PassDone => Owned(pods) = {} /\ Owned(pvcs) = {}

\* C4, amended: when a cycle is about to issue its claim create and every list
\* and delete call of the pass before it returned no error, no labelled object
\* of an earlier cycle exists.
C4_NoLeftoverAfterCleanPass ==
    PassDone /\ Clean(trace) => Owned(pods) = {} /\ Owned(pvcs) = {}

C4_Witness ==
    /\ PassDone /\ Clean(trace)
    /\ cycle > 0
    /\ \E i \in Calls("delete", "pod") : trace[i].name = PodName(cycle)
    /\ \E i \in Calls("delete", "pvc") : trace[i].name = PVCName(cycle)

\* C5: what a stopped process had created and not yet deleted stays in the
\* namespace while no process runs, and the first pass of the next process
\* has issued a delete for each such object of a kind whose list succeeded
\* by the time that process is about to create a claim.
C5_OrphansSwept ==
    /\ pc = "crashed" =>
          \A o \in orphans :
             o.name \in Names(Owned(IF o.kind = "pod" THEN pods ELSE pvcs))
    /\ PassDone =>
          \A o \in orphans :
             ListOk(o.kind) => CallsOn("delete", o.kind, o.name) # {}

C5_Witness ==
    /\ PassDone
    /\ Cardinality(orphans) = 2
    /\ \A o \in orphans : CallsOn("delete", o.kind, o.name) # {}

\* What a pass that started with the labelled pods and claims of `entry` has
\* done when it deleted them all.
SweptAll ==
    /\ cleanupSuccess = entry.cleanupSuccess
                        + Cardinality(entry.pods) + Cardinality(entry.pvcs)
    /\ cleanupFailure = entry.cleanupFailure
    /\ {trace[i].name : i \in Calls("delete", "pod")} = entry.pods
    /\ {trace[i].name : i \in Calls("delete", "pvc")} = entry.pvcs
    /\ Owned(pods) = {} /\ Owned(pvcs) = {}

\* C6, as claimed: a pass none of whose deletes returned an error has deleted
\* the N labelled pods and M labelled claims it started with, has increased
\* cleanupSuccess by N+M and left cleanupFailure alone.
C6_SweepsAll ==
    PassDone /\ (\A i \in Deletes(trace) : trace[i].ok) => SweptAll

\* C6, amended: the same of a pass both of whose list calls succeeded and none
\* of whose deletes returned an error.
C6_SweepsAllListed ==
    PassDone /\ Clean(trace) => SweptAll

C6_Witness ==
    /\ PassDone /\ Clean(trace)
    /\ Cardinality(entry.pods) = 2 /\ Cardinality(entry.pvcs) = 2
    /\ cleanupSuccess = entry.cleanupSuccess + 4

\* A pass that deleted nothing and moved no cleanup counter.
NoSweep ==
    /\ Deletes(trace) = {}
    /\ cleanupSuccess = entry.cleanupSuccess
    /\ cleanupFailure = entry.cleanupFailure

\* C7, as claimed: the second of two passes with no create in between issues
\* no delete and moves no cleanup counter.
C7_SecondPassIdle == PassDone /\ prevPass.ran /\ prevPass.quiet => NoSweep

\* C7, amended: the second of two passes with no create in between issues no
\* delete and moves no cleanup counter when every list and delete call of the
\* first returned no error; and a pass over a namespace without labelled
\* objects issues no delete and moves no cleanup counter.
C7_SecondPassIdleAfterClean ==
    /\ PassDone /\ prevPass.ran /\ prevPass.quiet /\ prevPass.clean => NoSweep
    /\ PassDone /\ entry.pods = {} /\ entry.pvcs = {} => NoSweep

C7_Witness ==
    /\ PassDone /\ prevPass.ran /\ prevPass.quiet /\ prevPass.clean
    /\ prevPass.swept = 2
    /\ Clean(trace)

C9_ClaimCreateError ==
    ClaimCreateFailed =>
        /\ NotRunning
        /\ Len(trace) = 1
        /\ checkFailure = entry.failure + 1
        /\ checkSuccess = entry.success
        /\ checkDuration = entry.duration

C9_Witness == ClaimCreateFailed /\ Returned

\* C10: after a pod create that returned an error, doStorageCheck returns with
\* checkFailure one higher, without a fetch and without a pod delete, and the
\* one delete it has issued when it has returned is for the claim it created.
C10_PodCreateError ==
    PodCreateFailed =>
        /\ pc = "return" \/ NotRunning
        /\ checkFailure = entry.failure + 1
        /\ checkSuccess = entry.success
        /\ ~Issued("get", "pod")
        /\ ~Issued("delete", "pod")
        /\ trace[1].op = "create" /\ trace[1].kind = "pvc" /\ trace[1].ok
        /\ NotRunning =>
              /\ Len(trace) = 3
              /\ trace[3].op = "delete" /\ trace[3].kind = "pvc"
              /\ trace[3].name = trace[1].name

C10_Witness == PodCreateFailed /\ Returned /\ Len(trace) = 3

\* ----------------------------------------------------------- claims C11..C20
Fetches == Calls("get", "pod")

\* Some fetch of the running call returned the phase ph.
Observed(ph) == \E i \in Fetches : trace[i].ph = ph

\* doStorageCheck is running or has just returned.
InCheck == pc \in {"createPod", "poll", "return", "tick"}

\* cleanupPreviousChecks has issued its first call and doStorageCheck has not
\* started yet.
Sweeping == pc \in {"deletePods", "listPVCs", "deletePVCs", "createPVC"}

\* C11: a call of doStorageCheck adds one sample to checkDuration when a fetch
\* returned Succeeded and none otherwise (claim create failed, pod create
\* failed, pod Failed); cleanupPreviousChecks adds none.
C11_DurationOnSuccessOnly ==
    /\ InCheck => checkDuration = entry.duration + (IF Observed("Succeeded") THEN 1 ELSE 0)
    /\ Sweeping => checkDuration = entry.duration

C11_Witness ==
    Returned /\ Observed("Succeeded") /\ checkDuration = entry.duration + 1

\* The step is one fetch of the poll loop; LastFetched is the call it made.
FetchStep ==
    /\ pc = "poll"
    /\ Len(trace') = Len(trace) + 1
    /\ trace'[Len(trace')].op = "get"

LastFetched == trace'[Len(trace')]

\* The step changes no counter, deletes nothing, and leaves the call in the
\* poll loop with the same pod to fetch.
StaysInPoll ==
    /\ UNCHANGED <<metrics, pods, pvcs, deferred, createdPod, createdPVC>>
    /\ pc' = "poll"

\* C12: a fetch of the poll loop after which the phase looked at is neither
\* Succeeded nor Failed (Pending, Running, Unknown, empty) changes no counter,
\* issues no delete, and leaves the call in the poll loop with the same pod.
C12_NonTerminalFetchIdle ==
    [][FetchStep /\ LastFetched.ph \notin {"Succeeded", "Failed"} => StaysInPoll]_vars

C12_Witness ==
    /\ pc = "poll"
    /\ \E i \in Fetches : trace[i].ok /\ trace[i].ph \in {"Pending", "Running", "Unknown"}

\* C13: a fetch of the poll loop that returns an error, the pod no longer
\* existing included, changes none of the four counters nor the histogram,
\* issues no delete, and leaves the call in the poll loop with the same pod.
C13_FetchErrorIgnored ==
    [][FetchStep /\ ~LastFetched.ok => StaysInPoll]_vars

C13_Witness ==
    /\ pc = "poll"
    /\ createdPod \notin Names(pods)
    /\ Fetches # {}
    /\ ~trace[Len(trace)].ok

PodCreated == \E i \in Calls("create", "pod") : trace[i].ok

\* The call reached the poll loop and no fetch has shown a terminal phase: it
\* is still in the loop, has moved neither check counter and issued no delete.
PollingUntilTerminal ==
    PodCreated /\ ~Observed("Succeeded") /\ ~Observed("Failed")
        => /\ pc = "poll"
           /\ checkSuccess = entry.success
           /\ checkFailure = entry.failure
           /\ Deletes(trace) = {}

\* C14: a call that reached the poll loop returns only after a fetch showed
\* Succeeded or Failed, and until then moves no check counter and issues no
\* delete; when the pod ends and is fetched, the call does return.
C14_ReturnsIffTerminalFetch ==
    /\ []PollingUntilTerminal
    /\ (pc = "poll" ~> Returned)

C14_Witness ==
    /\ pc = "poll"
    /\ polls = MaxPolls
    /\ phase \notin {"Succeeded", "Failed"}

Untargeted(kind) == {u \in untargeted : u.kind = kind}

\* C15: cleanupPreviousChecks and doStorageCheck run one after the other in
\* one goroutine: while a pass runs or a new call is about to start, the
\* earlier call of doStorageCheck has returned (none of its deferred deletes is
\* waiting), and at no time does more than one claim or more than one pod that
\* this process created still await its first delete call.
C15_OneCallAtATime ==
    /\ InPass \/ PassDone => deferred = <<>> /\ untargeted = {}
    /\ untargeted # {} => pc \in {"createPod", "poll", "return"}
    /\ Cardinality(Untargeted("pvc")) <= 1
    /\ Cardinality(Untargeted("pod")) <= 1

C15_Witness ==
    /\ pc = "poll"
    /\ Cardinality(Untargeted("pvc")) = 1
    /\ Cardinality(Untargeted("pod")) = 1
    /\ Cardinality(Names(Owned(pods))) > 1

\* The calls on record are those of one whole pass: the pod list first, the
\* claim list after it, every listed item visited, and no create among them.
WholePass ==
    /\ trace # <<>>
    /\ trace[1].op = "list" /\ trace[1].kind = "pod"
    /\ Issued("list", "pvc")
    /\ \A i \in 1..Len(trace) : trace[i].op \in {"list", "delete"}
    /\ items = {}

\* The step issues the claim create of doStorageCheck.
ClaimCreateStep == pc = "createPVC" /\ pc' \in {"createPod", "tick"}

\* C16: in every iteration cleanupPreviousChecks runs to its end before
\* doStorageCheck begins: the calls issued since the iteration began and
\* before the claim create are those of one whole pass with no create among
\* them; and after every return of doStorageCheck, as after every start of a
\* pass, the loop comes to the end of a pass again.
C16_PassBeforeCheck ==
    /\ [](PassDone => WholePass)
    /\ [][ClaimCreateStep => WholePass]_vars
    /\ (Returned ~> PassDone)
    /\ (InPass ~> PassDone)

C16_Witness ==
    /\ PassDone
    /\ WholePass
    /\ checkSuccess + checkFailure > 0
    /\ Deletes(trace) # {}

Kinds == {"pod", "pvc"}

\* The labelled objects of a kind when the running pass began.
AtEntry(kind) == IF kind = "pod" THEN entry.pods ELSE entry.pvcs

DeletedNames(kind) == {trace[i].name : i \in Calls("delete", kind)}

\* C17: a delete that returns an error does not stop the sweep: at the end of
\* a pass, for each kind whose list succeeded one delete has been issued for
\* every listed item, those listed after a failed delete included, and the
\* claims have been listed whatever the pod deletes returned.
C17_SweepGoesOn ==
    PassDone =>
        /\ Issued("list", "pvc")
        /\ \A kind \in Kinds :
              ListOk(kind) =>
                  /\ DeletedNames(kind) = AtEntry(kind)
                  /\ Cardinality(Calls("delete", kind)) = Cardinality(AtEntry(kind))

C17_Witness ==
    /\ PassDone
    /\ \E i, j \in Calls("delete", "pod") : i < j /\ ~trace[i].ok
    /\ Calls("delete", "pvc") # {}

\* The delete calls on record that returned no error (ok) or an error (~ok).
DeletesThat(ok) == {i \in Deletes(trace) : trace[i].ok = ok}

\* The number of items the list calls of the pass returned.
ListedItems ==
    (IF ListOk("pod") THEN Cardinality(AtEntry("pod")) ELSE 0)
    + (IF ListOk("pvc") THEN Cardinality(AtEntry("pvc")) ELSE 0)

\* C18: every delete call of cleanupPreviousChecks adds 1 to exactly one
\* counter, cleanupSuccess when it returned no error and cleanupFailure when
\* it returned one; at the end of the pass the two increases add up to the
\* number of delete calls, which is the number of items the lists returned.
C18_OneCountPerDelete ==
    /\ Sweeping =>
          /\ cleanupSuccess = entry.cleanupSuccess + Cardinality(DeletesThat(TRUE))
          /\ cleanupFailure = entry.cleanupFailure + Cardinality(DeletesThat(FALSE))
    /\ PassDone => Cardinality(Deletes(trace)) = ListedItems

C18_Witness ==
    /\ PassDone
    /\ DeletesThat(TRUE) # {}
    /\ DeletesThat(FALSE) # {}
    /\ (cleanupSuccess - entry.cleanupSuccess) + (cleanupFailure - entry.cleanupFailure)
           = ListedItems

Other(kind) == IF kind = "pod" THEN "pvc" ELSE "pod"

ListFailed(kind) == \E i \in Calls("list", kind) : ~trace[i].ok

\* C19: at the end of a pass in which the list of one kind returned an error,
\* no delete has been issued for that kind and the cleanup counters have moved
\* by the deletes of the other kind only, while the other kind has been listed
\* and, its list succeeding, swept item by item.
C19_FailedListSkipsKind ==
    PassDone =>
        \A kind \in Kinds :
            ListFailed(kind) =>
                /\ Calls("delete", kind) = {}
                /\ (cleanupSuccess - entry.cleanupSuccess)
                       + (cleanupFailure - entry.cleanupFailure)
                   = Cardinality(Calls("delete", Other(kind)))
                /\ Issued("list", Other(kind))
                /\ ListOk(Other(kind)) => DeletedNames(Other(kind)) = AtEntry(Other(kind))

C19_Witness ==
    /\ PassDone
    /\ ListFailed("pod")
    /\ AtEntry("pod") # {}
    /\ ListOk("pvc")
    /\ Calls("delete", "pvc") # {}

\* The calls on record of one operation that returned an error.
Failed(op) == {i \in 1..Len(trace) : trace[i].op = op /\ ~trace[i].ok}

SomeCounterMoved ==
    \/ checkSuccess > entry.success
    \/ checkFailure > entry.failure
    \/ cleanupSuccess > entry.cleanupSuccess
    \/ cleanupFailure > entry.cleanupFailure

\* C20, as claimed: a call of cleanupPreviousChecks or doStorageCheck in which
\* some API call returned an error has, by its end, incremented one of the
\* four counters.
C20_EveryErrorCounted ==
    (PassDone \/ Returned) /\ ~Clean(trace) => SomeCounterMoved

\* What the errors of the running call have done to the counters: a failed
\* create counts in checkFailure and a failed delete of the sweep in
\* cleanupFailure; failed lists, failed fetches and failed deferred deletes
\* count nowhere.
ErrorsAccounted ==
    /\ Sweeping =>
          /\ cleanupFailure = entry.cleanupFailure + Cardinality(Failed("delete"))
          /\ checkFailure = entry.failure
          /\ checkSuccess = entry.success
    /\ InCheck =>
          /\ checkFailure = entry.failure + Cardinality(Failed("create"))
                            + (IF Observed("Failed") THEN 1 ELSE 0)
          /\ checkSuccess = entry.success + (IF Observed("Succeeded") THEN 1 ELSE 0)
          /\ cleanupFailure = entry.cleanupFailure
          /\ cleanupSuccess = entry.cleanupSuccess

LastCallFailed == trace # <<>> /\ ~trace[Len(trace)].ok

\* C20, amended: no error of a list, create, get or delete call stops the
\* loop: after a call that returned an error the loop still comes to the end
\* of a pass; a failed create adds 1 to checkFailure and a failed delete of
\* cleanupPreviousChecks adds 1 to cleanupFailure, while a failed list, a
\* failed fetch and a failed deferred delete change no counter.
C20_ErrorsAbsorbed ==
    /\ []ErrorsAccounted
    /\ (LastCallFailed ~> PassDone)

C20_Witness ==
    /\ Returned
    /\ Failed("get") # {}
    /\ Failed("delete") # {}
    /\ Observed("Succeeded")
    /\ checkFailure = entry.failure
    /\ cleanupFailure = entry.cleanupFailure

\* ----------------------------------------------------------- claims C21..C30
\* The step runs one deferred delete of doStorageCheck.
DeferredStep == pc = "return" /\ pc' \in {"return", "tick"}

Missed(kind) == {m.name : m \in {x \in missed : x.kind = kind}}

LabelledNames(kind) == Names(Owned(IF kind = "pod" THEN pods ELSE pvcs))

\* C21: doStorageCheck leaves cleanupSuccess and cleanupFailure as they were
\* at its entry, and a deferred delete, whatever it returns, moves neither
\* check counter nor the histogram; what a deferred delete failed to remove
\* stays labelled in the namespace until a pass issues a delete for it, which
\* every pass does whose list of that kind succeeded.
C21_DeferredFailureTolerated ==
    /\ [](InCheck => /\ cleanupSuccess = entry.cleanupSuccess
                     /\ cleanupFailure = entry.cleanupFailure)
    /\ [][DeferredStep => UNCHANGED metrics]_vars
    /\ [](\A kind \in Kinds : Missed(kind) \subseteq LabelledNames(kind))
    /\ [](PassDone => \A kind \in Kinds : ListOk(kind) => Missed(kind) = {})

\* A pass of the process whose cycle has returned issues a delete for the pod
\* of that cycle, which only a failed deferred delete can have left.
C21_Witness ==
    /\ PassDone
    /\ checkSuccess + checkFailure > 0
    /\ \E i \in Calls("delete", "pod") : trace[i].name = PodName(cycle)
    /\ Missed("pod") = {}

\* The call on record at i is a failure of the cycle: a create that returned
\* an error, or a fetch that showed the pod Failed.
FailureAt(i) ==
    \/ trace[i].op = "create" /\ ~trace[i].ok
    \/ trace[i].op = "get" /\ trace[i].ph = "Failed"

\* C22: one call of doStorageCheck issues at most one claim create and at most
\* one pod create, and no create after a create that returned an error or a
\* fetch that showed the pod Failed.
C22_NoRetry ==
    /\ Cardinality(Calls("create", "pvc")) <= 1
    /\ Cardinality(Calls("create", "pod")) <= 1
    /\ \A i \in 1..Len(trace) :
          FailureAt(i) => \A j \in (i + 1)..Len(trace) : trace[j].op # "create"

C22_Witness ==
    /\ Returned
    /\ Observed("Failed")
    /\ Cardinality(Calls("create", "pvc")) = 1
    /\ Cardinality(Calls("create", "pod")) = 1

\* The names the creates on record returned.
CreatedNames(kind) == {trace[i].name : i \in {k \in Calls("create", kind) : trace[k].ok}}

\* The calls on record are those of a call of doStorageCheck.
CheckOnRecord == trace # <<>> /\ trace[1].op = "create"

\* C23: the pod a call of doStorageCheck created mounts the claim whose name
\* the claim create of the same call returned, and the deferred claim delete
\* of that call is issued for that name.
C23_PodMountsOwnClaim ==
    CheckOnRecord =>
        /\ \A r \in pods : r.name \in CreatedNames("pod") => {r.claim} = CreatedNames("pvc")
        /\ \A i \in Calls("delete", "pvc") : {trace[i].name} = CreatedNames("pvc")

C23_Witness ==
    /\ Returned
    /\ Calls("delete", "pvc") # {}
    /\ \E r \in pods : r.name \in CreatedNames("pod") /\ r.claim \in CreatedNames("pvc")

\* The pod create requests on record.
PodRequests == {trace[i].req : i \in Calls("create", "pod")}

\* C24, as claimed: every pod create request of doStorageCheck has restart
\* policy Never and a container security context with user id 1000,
\* RunAsNonRoot true, read-only root filesystem, capability ALL dropped,
\* AllowPrivilegeEscalation false and Privileged false.
C24_PodRequestUnprivileged ==
    \A req \in PodRequests :
        /\ req.restartPolicy = "Never"
        /\ req.runAsUser = 1000
        /\ req.runAsNonRoot
        /\ req.readOnlyRootFilesystem
        /\ "ALL" \in req.drop
        /\ ~req.allowPrivilegeEscalation
        /\ ~req.privileged

\* The same of the program built from main.go alone.
C24_MainGoUnprivileged == build = MainGo => C24_PodRequestUnprivileged

\* The value stays or grows by one.
StepsUp(old, new) == new = old \/ new = old + 1

\* C25: as long as the process lives, every step leaves each of the four
\* counters and the sample count of the histogram as it was or one higher;
\* only the end of the process ends their values.
C25_CountersMonotonic ==
    [][pc' # "crashed" =>
          /\ StepsUp(checkSuccess, checkSuccess')
          /\ StepsUp(checkFailure, checkFailure')
          /\ StepsUp(checkDuration, checkDuration')
          /\ StepsUp(cleanupSuccess, cleanupSuccess')
          /\ StepsUp(cleanupFailure, cleanupFailure')]_vars

C25_Witness ==
    /\ pc # "crashed"
    /\ checkSuccess = 1 /\ checkDuration = 1
    /\ cleanupSuccess > 0 /\ cleanupFailure > 0

\* The step serves a request.
ServeStep == http' # http

\* C26: serving a /metrics or /healthz request at any point of the loop
\* changes no counter, not the histogram, no pod or claim and nothing of the
\* running cycle; /metrics hands out the values the metrics have.
C26_ServingOnlyReads ==
    [][ServeStep =>
          /\ UNCHANGED <<pc, pods, pvcs, phase, metrics, locals, cycle>>
          /\ http'.path = "/metrics" =>
                http'.rec.body = <<<<checkSuccess, checkFailure, checkDuration,
                                     cleanupSuccess, cleanupFailure>>>>]_vars

C26_Witness ==
    /\ pc = "return"
    /\ deferred # <<>>
    /\ http.path = "/metrics"
    /\ http.rec.body = <<metrics>>
    /\ checkSuccess = 1

\* C27: whatever the wrapped handler, the method and the path, the client of
\* LoggingMiddleware receives the status code and the body the wrapped
\* handler wrote (200, 201 and 500 alike), and the handler was entered once.
C27_MiddlewareTransparent ==
    http # NoExchange =>
        /\ http.rec.calls = 1
        /\ http.rec.code = ServeHTTP(http.handler, NewRecorder, metrics).code
        /\ http.rec.body = ServeHTTP(http.handler, NewRecorder, metrics).body
        /\ \A d \in DummyHandlers :
              http.handler = d.name => http.rec.code = d.status /\ http.rec.body = <<d.body>>

C27_Witness ==
    /\ http.handler = "error"
    /\ http.method = "GET" /\ http.path = "/error"
    /\ http.rec.code = 500
    /\ http.rec.body = <<"Internal Server Error">>

DeleteClasses(cs) == {cs[i].name : i \in {k \in 1..Len(cs) : cs[k].policy = "Delete"}}

Gone(kind) ==
    /\ pc = "poll"
    /\ IF kind = "pod" THEN createdPod \notin Names(pods)
                       ELSE createdPVC \notin Names(pvcs)

\* The call does not return: it stays in the poll loop, or the process dies.
NeverReturns == pc' \in {"poll", "crashed"}

\* C29, as claimed: a pass deletes every labelled object it lists, whoever
\* created it; and once the pass of a second instance has deleted the pod or
\* the claim of the running cycle, the poll loop never sees a terminal phase
\* and the call never returns.
C29_PeerDeleteHangsCycle ==
    /\ [](PassDone => \A kind \in Kinds : ListOk(kind) => DeletedNames(kind) = AtEntry(kind))
    /\ [][Gone("pod") \/ Gone("pvc") => NeverReturns]_vars

\* C29, amended: a pass deletes every labelled object it lists, whoever created
\* it; once the pass of a second instance has deleted the pod of the running
\* cycle, the pod stays away, the poll loop never sees a terminal phase and the
\* call never returns. The loss of the claim alone does not hold the call.
C29_PeerPodDeleteHangsCycle ==
    /\ [](PassDone => \A kind \in Kinds : ListOk(kind) => DeletedNames(kind) = AtEntry(kind))
    /\ [][Gone("pod") => NeverReturns /\ (pc' = "poll" => Gone("pod")')]_vars

C29_Witness ==
    /\ Gone("pod") /\ Gone("pvc")
    /\ polls = MaxPolls
    /\ ~trace[Len(trace)].ok
    /\ phase = "Succeeded"
    /\ cleanupSuccess >= 2

\* No call of doStorageCheck is running in the process.
BetweenCalls == pc \in {"tick", "listPods", "deletePods", "listPVCs", "deletePVCs", "createPVC"}

Decided == {i \in Fetches : Terminal(trace[i].ph)}

\* 1 when the phase is the given one, 0 when it is not.
One(ph, wanted) == IF ph = wanted THEN 1 ELSE 0

\* C31: once a fetch of a call returned Succeeded or Failed, it is the only
\* such fetch and the last fetch of the call, no create follows it, every
\* later call is one of at most two deletes of what the call created, and the
\* counters stand at their entry values plus one for the counter (and the
\* histogram, on Succeeded) of the phase that fetch returned, whatever the
\* phase of the pod has become since.
C31_FirstTerminalFetchDecides ==
    \A d \in Decided :
        /\ Decided = {d}
        /\ \A j \in (d + 1)..Len(trace) :
              /\ trace[j].op = "delete"
              /\ trace[j].name \in CreatedNames(trace[j].kind)
        /\ Len(trace) - d <= 2
        /\ checkSuccess = entry.success + One(trace[d].ph, "Succeeded")
        /\ checkDuration = entry.duration + One(trace[d].ph, "Succeeded")
        /\ checkFailure = entry.failure + One(trace[d].ph, "Failed")
        /\ cleanupSuccess = entry.cleanupSuccess
        /\ cleanupFailure = entry.cleanupFailure

\* The pod was fetched as Succeeded, its phase has become Failed since, and the
\* first deferred delete has been issued.
C31_Witness ==
    /\ pc = "return"
    /\ \E d \in Decided : trace[d].ph = "Succeeded" /\ Len(trace) = d + 1
    /\ phase = "Failed"
    /\ checkSuccess = entry.success + 1
    /\ checkFailure = entry.failure

\* The step is taken while a call of doStorageCheck is running.
CheckStep == pc \in {"createPVC", "createPod", "poll", "return"}

\* The objects of a set that the call now running did not create.
NotOfCall(S, c) == {r \in S : r.cycle # c}

\* C32: a call of doStorageCheck issues no list; every delete it issues is for
\* a name one of its own creates returned, of the same kind; and no step taken
\* while it runs removes or changes a pod or a claim that the call did not
\* create itself.
C32_DeletesOnlyOwn ==
    /\ [](CheckOnRecord =>
            /\ \A i \in 1..Len(trace) : trace[i].op # "list"
            /\ \A i \in Deletes(trace) : trace[i].name \in CreatedNames(trace[i].kind))
    /\ [][CheckStep =>
            /\ NotOfCall(pods', cycle') = NotOfCall(pods, cycle')
            /\ NotOfCall(pvcs', cycle') = NotOfCall(pvcs, cycle')]_vars

C32_Witness ==
    /\ Returned
    /\ Cardinality(Deletes(trace)) = 2
    /\ Clean(trace)
    /\ NotOfCall(Owned(pods), cycle) # {}
    /\ NotOfCall(Owned(pvcs), cycle) # {}

\* The step is taken while cleanupPreviousChecks is running.
SweepStep == pc \in {"listPods", "deletePods", "listPVCs", "deletePVCs"}

\* The calls on record are those of a pass of cleanupPreviousChecks.
PassOnRecord == trace # <<>> /\ trace[1].op = "list"

\* The objects of a set the selector of the pass does not reach: those of
\* another namespace and those without the label.
OutOfReach(S) == S \ Owned(S)

\* C33: a pass of cleanupPreviousChecks issues no create, and every delete it
\* issues is for a labelled object of the namespace that its list of that kind
\* returned; no step of the pass changes an object that lacks the label or
\* lives in another namespace, none adds an object, and none changes
\* checkSuccess, checkFailure or checkDuration.
C33_SweepsOnlyListed ==
    /\ [](PassOnRecord =>
            /\ \A i \in 1..Len(trace) : trace[i].op \in {"list", "delete"}
            /\ \A kind \in Kinds :
                  /\ DeletedNames(kind) \subseteq AtEntry(kind)
                  /\ DeletedNames(kind) # {} => ListOk(kind))
    /\ [][SweepStep =>
            /\ OutOfReach(pods') = OutOfReach(pods)
            /\ OutOfReach(pvcs') = OutOfReach(pvcs)
            /\ pods' \subseteq pods /\ pvcs' \subseteq pvcs
            /\ UNCHANGED <<checkSuccess, checkFailure, checkDuration>>]_vars

C33_Witness ==
    /\ PassDone /\ Clean(trace)
    /\ Cardinality(Deletes(trace)) = 2
    /\ checkSuccess + checkFailure > 0
    /\ \E r \in pods : r.ns = OtherNamespace /\ Matches(r)
    /\ \E r \in pvcs : r.ns = OtherNamespace /\ Matches(r)
    /\ \E r \in pods : r.ns = Namespace /\ ~Matches(r)
    /\ \E r \in pvcs : r.ns = Namespace /\ ~Matches(r)

\* The call on record created its claim and its pod.
BothCreated == CheckOnRecord /\ CreatedNames("pod") # {} /\ CreatedNames("pvc") # {}

\* One of the two check counters has moved by one since the call began.
OutcomeCounted == checkSuccess + checkFailure = entry.success + entry.failure + 1

\* C34: in a call that created both objects, whichever terminal phase was
\* fetched: when the poll loop is left the check counter has been incremented
\* and no delete issued yet; every delete follows the terminal fetch; the claim
\* delete is issued only after the pod delete; and the returned call has issued
\* exactly the pod delete, then the claim delete.
C34_PodDeleteBeforeClaimDelete ==
    BothCreated =>
        /\ pc = "return" /\ Deletes(trace) = {} => OutcomeCounted /\ Decided # {}
        /\ Deletes(trace) # {} =>
              /\ OutcomeCounted
              /\ \A d \in Decided : \A i \in Deletes(trace) : d < i
        /\ \A i \in Calls("delete", "pvc") : \E j \in Calls("delete", "pod") : j < i
        /\ Returned =>
              /\ trace[Len(trace) - 1].op = "delete" /\ trace[Len(trace) - 1].kind = "pod"
              /\ trace[Len(trace)].op = "delete" /\ trace[Len(trace)].kind = "pvc"
              /\ Cardinality(Deletes(trace)) = 2

C34_Witness ==
    /\ BothCreated /\ Returned
    /\ Observed("Failed")
    /\ \E i \in Fetches : trace[i].ph = "Running"
    /\ checkFailure = entry.failure + 1
    /\ ~trace[Len(trace) - 1].ok

\* The seconds the claim gives for a value of CHECK_INTERVAL: 3600 for what
\* does not parse and for what is not positive, the number itself otherwise.
ClaimedSeconds(str) ==
    LET parsed == Atoi(str)
    IN IF parsed.err \/ parsed.neg \/ IsZero(parsed.mag)
       THEN Bytes(DefaultInterval) ELSE parsed.mag

\* A duration of so many seconds in nanoseconds, computed without loss.
SecondsExact(seconds) == Times(seconds, Bytes(Second))

\* The int64 holds the number.
Holds(x, a) == ~Negative(x) /\ x.bits \o [i \in 1..(Wide - Int64Bytes) |-> 0] = a

\* C35, as claimed: whatever CHECK_INTERVAL holds, the period handed to the
\* ticker is positive and is the claimed number of seconds, 3600 for a value
\* that does not parse or is not positive and n for a parsed positive n, the
\* n whose nanoseconds exceed the int64 range included.
C35_PeriodIsIntervalSeconds ==
    interval.made =>
        /\ Positive(interval.period)
        /\ ~interval.panicked
        /\ Holds(interval.period, SecondsExact(ClaimedSeconds(interval.env)))

\* The same for the values whose nanoseconds fit an int64.
C35_PeriodUnlessOverflow ==
    interval.made /\ ~Above63(SecondsExact(ClaimedSeconds(interval.env)))
        => C35_PeriodIsIntervalSeconds

\* A parsed positive n whose period is negative, and one whose period is
\* positive but not n seconds.
C35_Overflows ==
    /\ interval.made /\ ~Atoi(interval.env).err
    /\ \/ interval.panicked
       \/ /\ Positive(interval.period)
          /\ ~Holds(interval.period, SecondsExact(interval.seconds))

\* A pass of cleanupPreviousChecks is running or has just ended: a cycle has
\* started and its call of doStorageCheck has not.
InSweep == pc \in {"listPods", "deletePods", "listPVCs", "deletePVCs", "createPVC"}

\* The step takes a tick from the channel.
ReceiveStep == ticker'.received # ticker.received

\* C36: the first cycle starts with no tick received, and the cycle that
\* starts after k calls of doStorageCheck starts with k ticks received; a tick
\* is received only where the earlier call has returned, one at a time, and
\* the receive starts the next cycle; the channel never holds more than one
\* tick and is empty after a receive, so that after a cycle during which
\* several intervals passed one cycle starts at once and the one after it
\* waits for a new tick.
C36_OneTickPerCycle ==
    /\ [](ticker.received = IF InSweep THEN cycle ELSE cycle - 1)
    /\ [](ticker.buffered \in {0, 1})
    /\ [][ReceiveStep =>
            /\ pc = "tick" /\ pc' = "listPods"
            /\ ticker'.received = ticker.received + 1
            /\ ticker.buffered = 1 /\ ticker'.buffered = 0]_vars

\* Several intervals passed while the first call of doStorageCheck ran; one
\* tick waits.
C36_Witness ==
    /\ pc = "return"
    /\ ticker.lapsed >= 2
    /\ ticker.buffered = 1
    /\ ticker.received = 0
    /\ cycle = 1

\* What a client of /healthz receives from lines 108-111.
HealthzAnswer ==
    [handler |-> "healthz", method |-> "GET", path |-> "/healthz",
     rec |-> [code |-> 200, wroteHeader |-> TRUE, body |-> <<"I'm OK. And you?">>,
              calls |-> 1]]

\* The poll loop has no end: the pod it fetches is gone.
Blocked == pc = "poll" /\ createdPod \notin Names(pods)

\* C37: in every state of the loop, the poll loop without an end included, a
\* /healthz request can be served and is answered 200 with the fixed body; the
\* answer is the same whatever the loop and the counters are at, and serving
\* it moves neither.
C37_HealthzAlwaysOK ==
    /\ [](ENABLED (Serve /\ http' = HealthzAnswer))
    /\ [][ServeStep /\ http'.path = "/healthz" =>
            /\ http' = HealthzAnswer
            /\ UNCHANGED <<pc, metrics, polls>>]_vars

C37_Witness ==
    /\ Blocked
    /\ polls = MaxPolls
    /\ ~trace[Len(trace)].ok
    /\ http = HealthzAnswer
    /\ checkSuccess + checkFailure = 0

====
